---- MODULE Spec2Model ----
(***************************************************************************)
(* A model of neural_artistic_style.py: the command-line driver (run), the *)
(* single-image optimisation loop (style_image), the video job             *)
(* (style_video) and the pure helpers weight_array, imsave's conversion,   *)
(* to_bc01 and to_rgb.                                                     *)
(*                                                                         *)
(* Floating-point pixel values are fixed-point integers: the integer v     *)
(* stands for the pixel level v / Quant.  Floating-point rounding error is *)
(* not modelled.  A normalised weight vector is the pair (num, den): slot  *)
(* k holds the rational num[k] / den.                                      *)
(***************************************************************************)
EXTENDS Integers, Sequences, FiniteSets, TLC

\* ---------------------------------------------------------------- bounds
MaxIter == 3
MaxRate == 2
Chans == 2
Quant == 2
MaxPairs == 3
MaxDim == 2
MaxCoef == 2

\* ------------------------------------------------------ program constants
NumLayers == 19
PixelMax == 255

VARIABLES
    argv,       \* the command line: what the user passed
    args,       \* the parsed argparse namespace (NoValue before parsing)
    pc,         \* the statement the program is at
    err,        \* the exception that ended the program ("" when none)
    fs,         \* the directories the program touches, each Absent or Dir(names)
    files,      \* what imread returns for the subject and the style file
    net,        \* the StyleNetwork object (NoValue before construction)
    init_view,  \* the initial image in viewable layout, mean added back
    i,          \* the loop variable of style_image
    n_update,   \* calls of net.update()
    n_step,     \* calls of learn_rule.step, per parameter
    saved,      \* every imsave call so far, in order: directory, name, image written
    runs,       \* every style_image invocation so far: subject, output, animation
    trace,      \* the statements executed so far, in order
    wa_in,      \* weight_array: the argument
    wa_out,     \* weight_array: the returned vector
    wa_pc,      \* weight_array: "call" or "returned"
    lay_img,    \* layout adapter: the H x W x C image
    lay_net,    \* layout adapter: to_bc01(lay_img)
    lay_out,    \* layout adapter: to_rgb(lay_net)
    lay_pc      \* layout adapter: "img", "net" or "out"

progVars == <<argv, args, pc, err, fs, files, net, init_view, i, n_update, n_step, saved, runs, trace>>
waVars == <<wa_in, wa_out, wa_pc>>
layVars == <<lay_img, lay_net, lay_out, lay_pc>>
vars == <<progVars, waVars, layVars>>

NoValue == "none"

\* A directory: whether it exists, and the names of the files in it.
Absent == [exists |-> FALSE, files |-> {}]
Dir(names) == [exists |-> TRUE, files |-> names]

\* ------------------------------------------------------------- tensors
\* An n-dimensional array: its shape and its elements by 0-based index tuple.
SeqMax(s) == IF s = <<>> THEN 0 ELSE CHOOSE m \in {s[k] : k \in 1..Len(s)} : \A k \in 1..Len(s) : s[k] <= m

Indices(shape) ==
    {idx \in [1..Len(shape) -> 0..(SeqMax(shape) - 1)] : \A k \in 1..Len(shape) : idx[k] < shape[k]}

\* np.transpose(a, axes): axis k of the result is axis axes[k] of a.
np_transpose(a, axes) ==
    LET n == Len(a.shape)
        shape == [k \in 1..n |-> a.shape[axes[k] + 1]]
        src(idx) == [m \in 1..n |-> idx[CHOOSE k \in 1..n : axes[k] + 1 = m]]
    IN  [shape |-> shape, data |-> [idx \in Indices(shape) |-> a.data[src(idx)]]]

\* a[np.newaxis, ...]: a leading axis of length 1.
np_newaxis(a) ==
    [shape |-> <<1>> \o a.shape, data |-> [idx \in Indices(<<1>> \o a.shape) |-> a.data[Tail(idx)]]]

\* a[0]: the first slice along the leading axis.
np_first(a) ==
    [shape |-> Tail(a.shape), data |-> [idx \in Indices(Tail(a.shape)) |-> a.data[<<0>> \o idx]]]

to_bc01_flipped(img) == np_newaxis(np_transpose(img, <<2, 1, 0>>))

to_bc01(img) == np_newaxis(np_transpose(img, <<2, 0, 1>>))

to_rgb(img) == np_transpose(np_first(img), <<1, 2, 0>>)

\* img + pixel_mean and img - pixel_mean: the mean broadcasts along the channel axis.
add_mean(img, mean) ==
    [shape |-> img.shape, data |-> [idx \in Indices(img.shape) |-> img.data[idx] + mean[idx[3] + 1]]]

sub_mean(img, mean) ==
    [shape |-> img.shape, data |-> [idx \in Indices(img.shape) |-> img.data[idx] - mean[idx[3] + 1]]]

\* init_img * (1 - w) + noise * w
blend(img, noise, w) ==
    [shape |-> img.shape,
     data |-> [idx \in Indices(img.shape) |-> img.data[idx] * (1 - w) + noise.data[idx] * w]]

\* ---------------------------------------------------------------- imsave
np_clip_upper_only(v, lo, hi) == IF v > hi THEN hi ELSE v

\* np.clip(v, lo, hi)
np_clip(v, lo, hi) == IF v < lo THEN lo ELSE IF v > hi THEN hi ELSE v

\* astype(np.uint8) of a value already in [0, 255]: the fraction is dropped.
\* The result is a pixel level, 0..255.
to_uint8(v) == v \div Quant

\* The array imsave hands to scipy.misc.imsave.
imsave_image(img) ==
    [shape |-> img.shape,
     data |-> [idx \in Indices(img.shape) |-> to_uint8(np_clip(img.data[idx], 0, PixelMax * Quant))]]

\* '%.4d.png' % k for 0 <= k < 10000: four decimal digits, zero padded.
frame_name(k) == <<(k \div 1000) % 10, (k \div 100) % 10, (k \div 10) % 10, k % 10>>

\* ---------------------------------------------------------- weight_array
RECURSIVE assign_add(_, _)
assign_add(array, weights) ==
    IF weights = <<>> THEN array
    ELSE assign_add([array EXCEPT ![Head(weights)[1]] = @ + Head(weights)[2]], Tail(weights))

\* for idx, weight in weights: array[idx] = weight
RECURSIVE assign(_, _)
assign(array, weights) ==
    IF weights = <<>> THEN array
    ELSE assign([array EXCEPT ![Head(weights)[1]] = Head(weights)[2]], Tail(weights))

RECURSIVE sum_upto(_, _)
sum_upto(array, k) == IF k < 0 THEN 0 ELSE array[k] + sum_upto(array, k - 1)

np_sum(array) == sum_upto(array, NumLayers - 1)

weight_array_unnormalised(weights) == [num |-> assign([k \in 0..(NumLayers - 1) |-> 0], weights), den |-> 1]

weight_array(weights) ==
    LET array == assign([k \in 0..(NumLayers - 1) |-> 0], weights)
        norm == np_sum(array)
    IN  IF norm > 0 THEN [num |-> array, den |-> norm] ELSE [num |-> array, den |-> 1]

\* w * (rn / rd)
scale_weights(w, rn, rd) == [num |-> [k \in DOMAIN w.num |-> w.num[k] * rn], den |-> w.den * rd]

\* ================================================== weight_array, applied
IdxSample == {0, 2, 18}
WeightSample == {-1, 0, 1, 3}
PairSample == IdxSample \X WeightSample
WeightLists == UNION {[1..n -> PairSample] : n \in 0..MaxPairs}

IdleWA == wa_in = <<>> /\ wa_out = NoValue /\ wa_pc = "idle"
IdleLay == lay_img = NoValue /\ lay_net = NoValue /\ lay_out = NoValue /\ lay_pc = "idle"
IdleProg ==
    /\ argv = NoValue /\ args = NoValue /\ pc = "idle" /\ err = "" /\ fs = NoValue /\ files = NoValue
    /\ net = NoValue /\ init_view = NoValue /\ i = 0 /\ n_update = 0 /\ n_step = NoValue
    /\ saved = <<>> /\ runs = <<>> /\ trace = <<>>

InitWA == wa_in \in WeightLists /\ wa_out = NoValue /\ wa_pc = "call"

CallWeightArray ==
    /\ wa_pc = "call"
    /\ wa_out' = weight_array(wa_in)
    /\ wa_pc' = "returned"
    /\ UNCHANGED <<wa_in, progVars, layVars>>

NextWA == CallWeightArray

InitWeights == InitWA /\ IdleProg /\ IdleLay

SpecWeights == InitWeights /\ [][NextWA]_vars

\* ================================================ to_bc01 / to_rgb, applied
\* Images of every shape up to MaxDim per axis; the element at (h, w, c) is a
\* linear form of its position, so that distinct positions can hold distinct
\* values (a = b = d = 1) as well as equal ones.
LayoutShapes == {<<h, w, c>> : h \in 1..MaxDim, w \in 1..MaxDim, c \in 1..MaxDim}
LayoutImage(shape, a, b, d) ==
    [shape |-> shape,
     data |-> [idx \in Indices(shape) |->
                  a * idx[1] + b * (MaxDim + 1) * idx[2] + d * (MaxDim + 1) * (MaxDim + 1) * idx[3]]]
LayoutImages ==
    {LayoutImage(s, a, b, d) : s \in LayoutShapes, a \in 0..MaxCoef, b \in 0..MaxCoef, d \in 0..MaxCoef}

InitLay == lay_img \in LayoutImages /\ lay_net = NoValue /\ lay_out = NoValue /\ lay_pc = "img"

CallToBc01 ==
    /\ lay_pc = "img"
    /\ lay_net' = to_bc01(lay_img)
    /\ lay_pc' = "net"
    /\ UNCHANGED <<lay_img, lay_out, progVars, waVars>>

CallToRgb ==
    /\ lay_pc = "net"
    /\ lay_out' = to_rgb(lay_net)
    /\ lay_pc' = "out"
    /\ UNCHANGED <<lay_img, lay_net, progVars, waVars>>

NextLay == CallToBc01 \/ CallToRgb

InitLayout == InitLay /\ IdleProg /\ IdleWA

SpecLayout == InitLayout /\ [][NextLay]_vars

\* ============================================================ the program
\* A path is the pair (stem, extension); a path inside a directory is the
\* pair (directory, file name).
splitext(path) == path

path_join(dir, name) == <<dir, name>>

\* What vgg_net returns that the driver uses: the per-channel pixel mean.
pixel_mean == [c \in 1..Chans |-> Quant * (100 + c)]

\* net.params: the image is the only tunable parameter.
Params == {"image"}

\* The gradients net.update() may leave behind, applied by learn_rule.step.
Grads == {-1, 1}

\* parser.parse_args(): --animation is declared with action="store_false" and
\* dest="animation_enabled", so the attribute is True unless the flag is passed.
parse_args(a) ==
    [subject |-> a.subject,
     style |-> <<"style", ".png">>,
     output |-> <<"out", ".png">>,
     init |-> NoValue,
     init_noise |-> a.init_noise,
     animation_enabled |-> ~a.animation,
     animation_directory |-> "animation",
     animation_rate |-> a.animation_rate,
     iterations |-> a.iterations,
     subject_weights |-> <<(<<9, 1>>)>>,
     style_weights |-> <<(<<0, 1>>), (<<2, 1>>), (<<4, 1>>), (<<8, 1>>), (<<12, 1>>)>>]

\* The images imread can return: every pixel an integer level.
ImageShape == <<1, 1, Chans>>
ImreadLevels == {0, PixelMax}
ReadImages == {[shape |-> ImageShape, data |-> d] : d \in [Indices(ImageShape) -> {l * Quant : l \in ImreadLevels}]}

\* The arrays np.random.normal can return.
NoiseValues == {-1, 1}
NoiseImages == {[shape |-> ImageShape, data |-> d] : d \in [Indices(ImageShape) -> NoiseValues]}

FrameDirStates == {Absent, Dir({}), Dir({<<"frame-00001", ".jpg">>})}
AnimDirStates == {Absent, Dir({}), Dir({frame_name(0)})}

ImageArgv ==
    [subject : {<<"subject", ".png">>}, animation : BOOLEAN, animation_rate : 0..MaxRate,
     iterations : 0..MaxIter, init_noise : {0, 1}]

VideoArgv ==
    [subject : {<<"subject", ".mp4">>}, animation : BOOLEAN, animation_rate : {1},
     iterations : {MaxIter}, init_noise : {0}]

InitProg ==
    /\ \/ /\ argv \in ImageArgv
          /\ fs \in [input_frames : {Absent}, output_frames : {Absent}, animation : AnimDirStates, cwd : {Dir({})}]
          /\ files \in [subject : ReadImages, style : {[shape |-> ImageShape, data |-> [idx \in Indices(ImageShape) |-> 0]]}]
       \/ /\ argv \in VideoArgv
          /\ fs \in [input_frames : FrameDirStates, output_frames : FrameDirStates, animation : {Absent}, cwd : {Dir({})}]
          /\ files = NoValue
    /\ args = NoValue /\ pc = "run" /\ err = "" /\ net = NoValue /\ init_view = NoValue
    /\ i = 0 /\ n_update = 0 /\ n_step = NoValue
    /\ saved = <<>> /\ runs = <<>> /\ trace = <<>>

\* run(): parse the command line and dispatch on the subject's extension.
Run ==
    /\ pc = "run"
    /\ args' = parse_args(argv)
    /\ pc' = IF splitext(args'.subject)[2] = ".mp4" THEN "video_rmtree_in" ELSE "style_image"
    /\ trace' = Append(trace, "parse_args")
    /\ UNCHANGED <<argv, err, fs, files, net, init_view, i, n_update, n_step, saved, runs, waVars, layVars>>

\* An uncaught exception ends the process.
Raise(name) ==
    /\ pc' = "crashed"
    /\ err' = name
    /\ UNCHANGED <<argv, args, fs, files, net, init_view, i, n_update, n_step, saved, runs, trace, waVars, layVars>>

\* ---------------------------------------------------------- style_video
\* shutil.rmtree(dir) raises when dir does not exist; os.mkdir(dir) follows.
VideoRmtreeInput ==
    /\ pc = "video_rmtree_in"
    /\ \/ /\ ~fs.input_frames.exists
          /\ Raise("OSError")
       \/ /\ fs.input_frames.exists
          /\ fs' = [fs EXCEPT !.input_frames = Absent]
          /\ pc' = "video_mkdir_in"
          /\ trace' = Append(trace, "rmtree input_frames")
          /\ UNCHANGED <<argv, args, err, files, net, init_view, i, n_update, n_step, saved, runs, waVars, layVars>>

VideoMkdirInput ==
    /\ pc = "video_mkdir_in"
    /\ fs' = [fs EXCEPT !.input_frames = Dir({})]
    /\ pc' = "video_rmtree_out"
    /\ trace' = Append(trace, "mkdir input_frames")
    /\ UNCHANGED <<argv, args, err, files, net, init_view, i, n_update, n_step, saved, runs, waVars, layVars>>

VideoRmtreeOutput ==
    /\ pc = "video_rmtree_out"
    /\ \/ /\ ~fs.output_frames.exists
          /\ Raise("OSError")
       \/ /\ fs.output_frames.exists
          /\ fs' = [fs EXCEPT !.output_frames = Absent]
          /\ pc' = "video_mkdir_out"
          /\ trace' = Append(trace, "rmtree output_frames")
          /\ UNCHANGED <<argv, args, err, files, net, init_view, i, n_update, n_step, saved, runs, waVars, layVars>>

VideoMkdirOutput ==
    /\ pc = "video_mkdir_out"
    /\ fs' = [fs EXCEPT !.output_frames = Dir({})]
    /\ pc' = "video_split_cmd"
    /\ trace' = Append(trace, "mkdir output_frames")
    /\ UNCHANGED <<argv, args, err, files, net, init_view, i, n_update, n_step, saved, runs, waVars, layVars>>

\* Building split_frames_cmd reads the name `subject`, which is bound neither
\* in style_video nor in the module: NameError.  Nothing after it runs.
VideoSplitFramesCmd ==
    /\ pc = "video_split_cmd"
    /\ Raise("NameError")

\* ---------------------------------------------------------- style_image
\* to_rgb(net.image) + pixel_mean
net_img(n) == add_mean(to_rgb(n.image), pixel_mean)

\* Everything before the loop: the inputs, the weights, the network, the
\* animation directory, the optimiser state.
StyleImageSetup ==
    /\ pc = "style_image"
    /\ \E noise \in NoiseImages :
          LET style_img == sub_mean(files.style, pixel_mean)
              subject_img == sub_mean(files.subject, pixel_mean)
              init_img == blend(subject_img, noise, args.init_noise)
              subject_weights == scale_weights(weight_array(args.subject_weights), 1, 50)
              style_weights == weight_array(args.style_weights)
          IN  /\ net' = [image |-> to_bc01(init_img),
                         subject |-> to_bc01(subject_img),
                         style |-> to_bc01(style_img),
                         subject_weights |-> subject_weights,
                         style_weights |-> style_weights]
              /\ init_view' = add_mean(init_img, pixel_mean)
    /\ fs' = IF args.animation_enabled /\ ~fs.animation.exists
             THEN [fs EXCEPT !.animation = Dir({})] ELSE fs
    /\ n_step' = [p \in Params |-> 0]
    /\ i' = 0
    /\ runs' = Append(runs, [subject |-> args.subject, output |-> args.output,
                             animation_enabled |-> args.animation_enabled])
    /\ trace' = Append(trace, "style_image")
    /\ pc' = "loop"
    /\ UNCHANGED <<argv, args, err, files, n_update, saved, waVars, layVars>>

SaveDue_after(a, k) == a.animation_enabled /\ a.animation_rate # 0 /\ (k + 1) % a.animation_rate = 0

\* args.animation_enabled and i % args.animation_rate == 0
SaveDue(a, k) == a.animation_enabled /\ a.animation_rate # 0 /\ k % a.animation_rate = 0

\* One pass of the loop body: the optional animation frame, net.update(),
\* learn_rule.step for every parameter.  i % 0 raises ZeroDivisionError.
LoopIter ==
    /\ pc = "loop"
    /\ i < args.iterations
    /\ \/ /\ args.animation_enabled /\ args.animation_rate = 0
          /\ Raise("ZeroDivisionError")
       \/ /\ ~(args.animation_enabled /\ args.animation_rate = 0)
          /\ saved' = IF SaveDue(args, i)
                      THEN Append(saved, [dir |-> args.animation_directory, name |-> frame_name(i),
                                          img |-> imsave_image(net_img(net))])
                      ELSE saved
          /\ fs' = IF SaveDue(args, i)
                   THEN [fs EXCEPT !.animation.files = @ \cup {frame_name(i)}] ELSE fs
          /\ n_update' = n_update + 1
          /\ n_step' = [p \in Params |-> n_step[p] + 1]
          /\ \E g \in Grads :
                net' = [net EXCEPT !.image =
                           [shape |-> @.shape, data |-> [idx \in DOMAIN @.data |-> @.data[idx] - g]]]
          /\ i' = i + 1
          /\ trace' = Append(trace, "iteration")
          /\ UNCHANGED <<argv, args, pc, err, files, init_view, runs, waVars, layVars>>

\* The loop is over: imsave(args.output, net_img()).
FinalSave ==
    /\ pc = "loop"
    /\ i >= args.iterations
    /\ saved' = Append(saved, [dir |-> ".", name |-> args.output, img |-> imsave_image(net_img(net))])
    /\ fs' = [fs EXCEPT !.cwd.files = @ \cup {args.output}]
    /\ trace' = Append(trace, "imsave output")
    /\ pc' = "done"
    /\ UNCHANGED <<argv, args, err, files, net, init_view, i, n_update, n_step, runs, waVars, layVars>>

Next ==
    \/ Run
    \/ VideoRmtreeInput
    \/ VideoMkdirInput
    \/ VideoRmtreeOutput
    \/ VideoMkdirOutput
    \/ VideoSplitFramesCmd
    \/ StyleImageSetup
    \/ LoopIter
    \/ FinalSave

Init == InitProg /\ IdleWA /\ IdleLay

Spec == Init /\ [][Next]_vars

\* ============================================ properties of the helpers
\* The sum of the values of a function with a finite domain.
RECURSIVE TotalOver(_, _)
TotalOver(f, dom) ==
    IF dom = {} THEN 0
    ELSE LET k == CHOOSE x \in dom : TRUE IN f[k] + TotalOver(f, dom \ {k})

TotalOf(f) == TotalOver(f, DOMAIN f)

\* The sum of the weights of a list of (index, weight) pairs, as supplied.
PairSum(weights) == TotalOf([n \in 1..Len(weights) |-> weights[n][2]])

\* The weight a list supplies last for slot k, 0 when it supplies none.
LastWeight(weights, k) ==
    LET at == {n \in 1..Len(weights) : weights[n][1] = k}
    IN  IF at = {} THEN 0 ELSE weights[CHOOSE n \in at : \A m \in at : m <= n][2]

\* The sum of the weights that survive overwriting.
EffectiveSum(weights) == TotalOf([k \in 0..(NumLayers - 1) |-> LastWeight(weights, k)])

AllZeroInput(weights) == \A n \in 1..Len(weights) : weights[n][2] = 0

\* The entries num[k] / den of a returned vector sum to 1.
SumsToOne(v) == TotalOf(v.num) = v.den

AllZeroVector(v) == \A k \in DOMAIN v.num : v.num[k] = 0

\* C6, as stated: whenever the weights of the input list sum to a positive
\* value the returned entries sum to 1, and an empty or all-zero input returns
\* the all-zero vector.
C6_AsStated ==
    wa_pc = "returned" =>
        /\ PairSum(wa_in) > 0 => SumsToOne(wa_out)
        /\ AllZeroInput(wa_in) => AllZeroVector(wa_out)

\* C6, amended: whenever the weights that survive overwriting (the last weight
\* supplied for each index) sum to a positive value, the returned entries sum
\* to 1; an empty or all-zero input returns the all-zero vector.
C6_SumToOne ==
    wa_pc = "returned" =>
        /\ EffectiveSum(wa_in) > 0 => SumsToOne(wa_out)
        /\ AllZeroInput(wa_in) => AllZeroVector(wa_out)

\* A list that supplies an index twice, so that the supplied weights and the
\* surviving weights have different sums, normalised by the latter.
C6_Witness ==
    /\ wa_pc = "returned"
    /\ PairSum(wa_in) # EffectiveSum(wa_in)
    /\ EffectiveSum(wa_in) > 1
    /\ wa_out.den = EffectiveSum(wa_in)
    /\ SumsToOne(wa_out)

\* C7: the last weight supplied for an index overwrites the earlier ones, the
\* vector is normalised after overwriting (by the sum of the surviving weights
\* when that is positive), and [(2, 1.0), (2, 3.0)] returns the vector whose
\* only nonzero entry is slot 2, equal to 1.
C7_LastWeightWins ==
    wa_pc = "returned" =>
        /\ \A k \in 0..(NumLayers - 1) : wa_out.num[k] = LastWeight(wa_in, k)
        /\ wa_out.den = IF EffectiveSum(wa_in) > 0 THEN EffectiveSum(wa_in) ELSE 1
        /\ wa_in = <<(<<2, 1>>), (<<2, 3>>)>> =>
              /\ wa_out.num[2] = wa_out.den
              /\ \A k \in 0..(NumLayers - 1) : k # 2 => wa_out.num[k] = 0

C7_Witness ==
    /\ wa_pc = "returned"
    /\ wa_in = <<(<<2, 1>>), (<<2, 3>>)>>
    /\ wa_out.num[2] = 3
    /\ wa_out.den = 3

\* C9: to_bc01 of an H x W x C image is the 1 x C x H x W tensor whose element
\* [0][c][h][w] is img[h][w][c], and to_rgb(to_bc01(img)) is img.
C9_RoundTrip ==
    /\ lay_pc \in {"net", "out"} =>
          /\ lay_net.shape = <<1, lay_img.shape[3], lay_img.shape[1], lay_img.shape[2]>>
          /\ Cardinality(DOMAIN lay_net.data) = Cardinality(DOMAIN lay_img.data)
          /\ \A idx \in DOMAIN lay_img.data :
                lay_net.data[<<0, idx[3], idx[1], idx[2]>>] = lay_img.data[idx]
    /\ lay_pc = "out" => lay_out = lay_img

\* A round trip of an image whose axes differ in length and whose elements are
\* all distinct.
C9_Witness ==
    /\ lay_pc = "out"
    /\ lay_out = lay_img
    /\ lay_img.shape = <<1, 2, 2>>
    /\ \A x, y \in DOMAIN lay_img.data : x # y => lay_img.data[x] # lay_img.data[y]

\* ============================================ properties of the program
IsVideoJob == splitext(argv.subject)[2] = ".mp4"

\* The imsave calls that wrote an animation frame, and the one(s) that wrote
\* the output image.
AnimSaves == SelectSeq(saved, LAMBDA e : e.dir = "animation")
FinalSaves == SelectSeq(saved, LAMBDA e : e.dir = ".")

\* The iterations of an n-iteration run at which a frame is due.
Checkpoints(n, r) == {k \in 0..(n - 1) : k % r = 0}

CeilDiv(n, r) == (n + r - 1) \div r

\* What a stored 8-bit pixel holds for the value v: the level, clipped to
\* [0, 255], fraction dropped.
Stored(v) == IF v < 0 THEN 0 ELSE IF v > PixelMax * Quant THEN PixelMax ELSE v \div Quant

StoredImageOf(written, img) ==
    /\ written.shape = img.shape
    /\ \A idx \in DOMAIN img.data : written.data[idx] = Stored(img.data[idx])

\* The written 8-bit image holds exactly the values of img: no pixel changed.
SameImage(written, img) ==
    /\ written.shape = img.shape
    /\ \A idx \in DOMAIN img.data : written.data[idx] * Quant = img.data[idx]

\* C1: a completed run with iterations = N > 0 and animation_rate >= 1 has
\* called net.update() N times and learn_rule.step N times for each parameter,
\* and has written ceil(N / animation_rate) animation frames (one per due
\* iteration, each under its own name) when animation is enabled, none when it
\* is disabled.
C1_LoopCounts ==
    (pc = "done" /\ args.iterations > 0 /\ args.animation_rate >= 1) =>
        /\ n_update = args.iterations
        /\ \A p \in Params : n_step[p] = args.iterations
        /\ Len(AnimSaves) = IF args.animation_enabled
                            THEN CeilDiv(args.iterations, args.animation_rate) ELSE 0
        /\ args.animation_enabled =>
              /\ {AnimSaves[k].name : k \in 1..Len(AnimSaves)} =
                    {frame_name(k) : k \in Checkpoints(args.iterations, args.animation_rate)}
              /\ Cardinality({AnimSaves[k].name : k \in 1..Len(AnimSaves)}) = Len(AnimSaves)

\* Three iterations at rate 2 with animation enabled: frames 0 and 2.
C1_Witness ==
    /\ pc = "done"
    /\ args.animation_enabled
    /\ args.iterations = 3
    /\ args.animation_rate = 2
    /\ n_update = 3
    /\ Len(AnimSaves) = 2

\* C3, as stated: a completed run has taken exactly `iterations` steps and has
\* written the output once, and the image written is the current image; with
\* iterations = 0 it is the initial image unchanged.
C3_AsStated ==
    (pc = "done" /\ ~IsVideoJob) =>
        /\ n_update = args.iterations
        /\ Len(FinalSaves) = 1
        /\ SameImage(FinalSaves[1].img, net_img(net))
        /\ args.iterations = 0 => SameImage(FinalSaves[1].img, init_view)

\* C3, amended: a run with animation_rate >= 1 never raises, has taken i
\* steps after i passes of the loop and never more than `iterations` (the
\* loop ends: iterations - i falls with every pass), writes no output before
\* it is done, and when done has taken exactly `iterations` steps and written
\* the output exactly once, last, holding the current image as imsave stores
\* it: every pixel clipped to [0, 255] and truncated to an 8-bit integer.
\* With iterations = 0 that is the initial image so stored.
C3_FinalImage ==
    (~IsVideoJob /\ argv.animation_rate >= 1) =>
        /\ pc \in {"run", "style_image", "loop", "done"}
        /\ pc # "done" => Len(FinalSaves) = 0
        /\ pc \in {"loop", "done"} => i <= args.iterations /\ n_update = i
        /\ pc = "done" =>
              /\ i = args.iterations
              /\ \A p \in Params : n_step[p] = args.iterations
              /\ Len(FinalSaves) = 1
              /\ saved[Len(saved)].dir = "."
              /\ saved[Len(saved)].name = args.output
              /\ StoredImageOf(saved[Len(saved)].img, net_img(net))
              /\ args.iterations = 0 => StoredImageOf(saved[Len(saved)].img, init_view)

\* A run of zero iterations whose written image differs from the initial
\* image: the initial image holds fractional pixel values.
C3_Witness ==
    /\ pc = "done"
    /\ args.iterations = 0
    /\ Len(saved) = 1
    /\ ~SameImage(saved[1].img, init_view)
    /\ StoredImageOf(saved[1].img, init_view)

\* C8, as stated: a completed run that was passed --animation (with a rate of
\* at least 1) has an animation directory and has written one frame per
\* checkpoint; a completed run that was not passed --animation has written
\* no animation frame.
C8_AsStated ==
    (pc = "done" /\ args.animation_rate >= 1) =>
        /\ argv.animation =>
              /\ fs.animation.exists
              /\ Len(AnimSaves) = Cardinality(Checkpoints(args.iterations, args.animation_rate))
        /\ ~argv.animation => Len(AnimSaves) = 0

\* A video job that has ended, other than by rmtree raising on a missing
\* frame directory.
VideoJobEnded == IsVideoJob /\ pc \in {"done", "crashed"} /\ err # "OSError"

\* C5, as stated: once a video job is past the reset statements, whatever the
\* directories held before, both frame directories exist and are empty.
C5_AsStated ==
    (IsVideoJob /\ pc \in {"video_split_cmd", "done", "crashed"}) =>
        /\ fs.input_frames = Dir({})
        /\ fs.output_frames = Dir({})

\* C2, as stated: a video job runs style_image once for every file F of the
\* input-frame directory, with subject input_frames/F and output
\* output_frames/F, and ends with exactly those names in the output-frame
\* directory.
C2_AsStated ==
    VideoJobEnded =>
        /\ pc = "done"
        /\ Len(runs) = Cardinality(fs.input_frames.files)
        /\ \A F \in fs.input_frames.files :
              \E k \in 1..Len(runs) :
                  /\ runs[k].subject = path_join("input_frames", F)
                  /\ runs[k].output = path_join("output_frames", F)
        /\ fs.output_frames.files = fs.input_frames.files

\* C4, as stated: a video job processes its frames, every per-frame run with
\* animation disabled whatever the user passed: no animation frame is written
\* and no animation directory is created.
C4_AsStated ==
    VideoJobEnded =>
        /\ pc = "done"
        /\ \A k \in 1..Len(runs) : ~runs[k].animation_enabled
        /\ Len(AnimSaves) = 0
        /\ ~fs.animation.exists

\* The stage of the video job a statement belongs to.
StageOf(stmt) ==
    CASE stmt \in {"parse_args", "rmtree input_frames", "mkdir input_frames",
                   "rmtree output_frames", "mkdir output_frames"} -> 1
      [] stmt \in {"call split_frames", "call extract_audio"} -> 2
      [] stmt \in {"style_image", "iteration", "imsave output"} -> 3
      [] OTHER -> 4

\* C10, as stated: a video job goes through its stages in order, reset, then
\* extraction, then the per-frame runs one at a time (a run's iterations and
\* its final write before the next run starts), then the re-mux, last.
C10_AsStated ==
    VideoJobEnded =>
        /\ pc = "done"
        /\ \A a, b \in 1..Len(trace) : a < b => StageOf(trace[a]) <= StageOf(trace[b])
        /\ \A s \in 1..4 : \E a \in 1..Len(trace) : StageOf(trace[a]) = s
        /\ \A a \in 1..Len(trace) :
              (trace[a] = "style_image" /\ a > 1 /\ StageOf(trace[a - 1]) = 3) =>
                  trace[a - 1] = "imsave output"

====
